---- MODULE Spec2Model ----
(***************************************************************************)
(* Model of test/mocks/databasemock.js: the test bootstrap of the forum.   *)
(* The module's top level resolves the configuration, checks that the test *)
(* database is not the production database and points the store at it; the *)
(* mocha before() hook then initialises the store, flushes and seeds it,    *)
(* starts the services and registers setupMockDefaults after every suite.   *)
(***************************************************************************)
EXTENDS Integers, Sequences, FiniteSets, TLC

VARIABLES
    cfg,        \* content of config.json as nconf.file() sees it
    nconf,      \* keys the module writes with nconf.set()
    pc,         \* position of the process in the module / before hook / reset
    caller,     \* who called setupMockDefaults: "before" or "afterAll"
    error,      \* the error that left the module or the hook ("none" if none)
    log,        \* the component calls made so far in this process, in order
    store,      \* content of the database the store module is connected to
    metaConfig, \* meta.config, the in-memory copy of the config object
    caches,     \* in-process caches holding entries read from the store
    fs,         \* paths present under the working directory
    mkIdx,      \* index of the next folder of the mkdirp loop
    hooks,      \* TRUE once suite.afterAll(setupMockDefaults) is registered
    suites,     \* suites run so far
    connection, \* the connection db.init() opened: open flag and target
    wrote       \* TRUE when the last suite run changed the store

vars == <<cfg, nconf, pc, caller, error, log, store, metaConfig, caches, fs,
          mkIdx, hooks, suites, connection, wrote>>

----------------------------------------------------------------------------
(* Bounds *)

\* number of test suites under the root suite
MaxSuites == 2

----------------------------------------------------------------------------
(* Configuration values *)

Undefined == "undefined"

DbTypes == {"redis", "mongo"}
DbNames == {"test_x", "prod_x"}
DbHosts == {"127.0.0.1", "10.0.0.2"}
DbPorts == {"6379", "6380"}

\* a connection object: database name, host and port
Targets == [database : DbNames, host : DbHosts, port : DbPorts]

\* an object none of whose connection fields is set
NoFields == [database |-> Undefined, host |-> Undefined, port |-> Undefined]

\* nconf.get('test_database'): absent, or an object
TestDbConfigs ==
    {[defined |-> FALSE, fields |-> NoFields]}
    \cup [defined : {TRUE}, fields : Targets \cup {NoFields}]

\* nconf.get('database'): absent, or an object holding the engine type, the
\* connection object of each engine (database.<type>) and whatever
\* database.database / database.host / database.port it has itself
DefaultConn == [database |-> "prod_x", host |-> "127.0.0.1", port |-> "6379"]

ConnTargets == {t \in Targets : t.host = "127.0.0.1" /\ t.port = "6379"}

OwnFields == {NoFields, [database |-> "test_x", host |-> "127.0.0.1", port |-> "6379"]}

DatabaseConfigs ==
    {[defined |-> FALSE, type |-> "redis", own |-> NoFields,
      conn |-> [t \in DbTypes |-> DefaultConn]]}
    \cup {[defined |-> TRUE, type |-> ty, own |-> o,
           conn |-> [t \in DbTypes |-> IF t = ty THEN c ELSE DefaultConn]] :
            ty \in DbTypes, o \in OwnFields, c \in ConnTargets}

\* the 'url' key: absent, or a URL as url.parse() decomposes it
Urls ==
    { [defined |-> FALSE, protocol |-> "http:", hostname |-> "localhost",
       port |-> 0, pathname |-> "/"],
      [defined |-> TRUE, protocol |-> "http:", hostname |-> "localhost",
       port |-> 0, pathname |-> "/"],
      [defined |-> TRUE, protocol |-> "https:", hostname |-> "forum.example.org",
       port |-> 8080, pathname |-> "/forum"] }

ConfiguredPorts == {0, 4000}                \* 0: no 'port' key
ConfiguredOrigins == {"", "https://a.example.org:*"}   \* "": no key
ConfiguredCookieDomains == {"", ".example.org"}        \* "": no key

\* the 'test_plugins' key: not an array, or an array of plugin ids
TestPluginLists ==
    { [isArray |-> FALSE, items |-> <<>>],
      [isArray |-> TRUE, items |-> <<>>],
      [isArray |-> TRUE, items |-> <<"nodebb-plugin-x", "nodebb-plugin-dbsearch">>] }

DefaultDatabase ==
    [defined |-> TRUE, type |-> "redis", own |-> NoFields,
     conn |-> [t \in DbTypes |-> DefaultConn]]

DefaultTestDb ==
    [defined |-> TRUE,
     fields |-> [database |-> "test_x", host |-> "127.0.0.1", port |-> "6379"]]

DefaultUrl ==
    [defined |-> TRUE, protocol |-> "http:", hostname |-> "localhost",
     port |-> 0, pathname |-> "/"]

AllConfigs ==
    [ readable : BOOLEAN,
      url : Urls,
      port : ConfiguredPorts,
      origins : ConfiguredOrigins,
      cookieDomain : ConfiguredCookieDomains,
      test_plugins : TestPluginLists,
      database : DatabaseConfigs,
      test_database : TestDbConfigs,
      hasCreateIndices : BOOLEAN ]

\* The configurations explored: the usual configuration changed in one group
\* of keys at a time (the database sections, the keys of the URL derivations,
\* the keys the seeding reads).
UsualDb(c) == c.database = DefaultDatabase /\ c.test_database = DefaultTestDb

UsualUrl(c) ==
    /\ c.readable
    /\ c.url = DefaultUrl
    /\ c.port = 0
    /\ c.origins = ""
    /\ c.cookieDomain = ""

UsualSeed(c) ==
    /\ c.test_plugins = [isArray |-> FALSE, items |-> <<>>]
    /\ c.hasCreateIndices

UsualRest(c) == UsualUrl(c) /\ UsualSeed(c)

Configs ==
    {c \in AllConfigs : \/ UsualUrl(c) /\ UsualSeed(c)
                        \/ UsualDb(c) /\ UsualSeed(c)
                        \/ UsualDb(c) /\ UsualUrl(c)}

----------------------------------------------------------------------------
(* The store, as the seeding code uses it *)

ConfigKeys == {"postDelay", "initialPostDelay", "newbiePostDelay",
               "autoDetectLang", "minimumPasswordStrength",
               "eventLoopCheckEnabled"}

\* value of a key the config object does not hold
Absent == -1

\* install/data/defaults.json
DefaultsJson ==
    [k \in ConfigKeys |->
        CASE k = "postDelay" -> 10
          [] k = "initialPostDelay" -> 10
          [] k = "newbiePostDelay" -> 120
          [] k = "autoDetectLang" -> 1
          [] k = "minimumPasswordStrength" -> 1
          [] k = "eventLoopCheckEnabled" -> 1]

Groups == {"registered-users", "guests"}

RegisteredPrivileges ==
    {"groups:chat", "groups:upload:post:image", "groups:signature",
     "groups:search:content", "groups:search:users", "groups:search:tags",
     "groups:local:login", "groups:view:users", "groups:view:tags",
     "groups:view:groups"}

GuestPrivileges == {"groups:view:users", "groups:view:tags", "groups:view:groups"}

BaselinePlugins == <<"nodebb-plugin-dbsearch", "nodebb-widget-essentials",
                     "nodebb-plugin-composer-default">>

Range(seq) == {seq[i] : i \in 1..Len(seq)}

\* db.emptydb(): every record of the connected database is gone
EmptyStore ==
    [config |-> [k \in ConfigKeys |-> Absent],
     privs |-> {},
     plugins |-> {},
     theme |-> "",
     records |-> {}]

emptydb(s) == EmptyStore

\* meta.configs.setOnEmpty(values): writes the keys the config object lacks
setOnEmpty(s, values) ==
    [s EXCEPT !.config =
        [k \in ConfigKeys |-> IF s.config[k] = Absent THEN values[k] ELSE s.config[k]]]

\* privileges.global.give(privileges, groupName): adds the group to each
give(s, privileges, groupName) ==
    [s EXCEPT !.privs = s.privs \cup {<<groupName, p>> : p \in privileges}]

\* db.sortedSetAdd(key, members) on 'plugins:active': a set, members collapse
sortedSetAdd(s, members) ==
    [s EXCEPT !.plugins = s.plugins \cup Range(members)]

\* meta.themes.set({type: 'local', id}): records the theme id
themesSet(s, id) == [s EXCEPT !.theme = id]

\* db.init(): connects to what nconf holds under database.<type>
dbInit(settings, type) == [open |-> TRUE, target |-> settings[type]]

\* meta.configs.init(): loads the config object of the store into meta.config
configsInit(s) == s.config

----------------------------------------------------------------------------
(* The filesystem: a path is the sequence of its segments *)

UploadRoot == <<"test", "uploads">>

Folders == << <<"test", "uploads">>,
              <<"test", "uploads", "category">>,
              <<"test", "uploads", "files">>,
              <<"test", "uploads", "system">>,
              <<"test", "uploads", "profile">> >>

StaleFile == <<"test", "uploads", "files", "old.png">>
StaleDir == <<"test", "uploads", "tmp">>

IsUnder(p, root) == Len(p) >= Len(root) /\ SubSeq(p, 1, Len(root)) = root

\* the removal is not recursive
rm_RootOnly(files, root) == files \ {root}

\* fs.promises.rm(root, {recursive: true, force: true})
rm(files, root) == {p \in files : ~IsUnder(p, root)}

\* mkdirp(folder): the folder and every missing ancestor
mkdirp(files, folder) == files \cup {SubSeq(folder, 1, n) : n \in 1..Len(folder)}

----------------------------------------------------------------------------
(* Pure parts of the module *)

\* relative_path: the URL's path unless it is "/"
RelativePath(u) == IF u.pathname # "/" THEN u.pathname ELSE ""

\* the configured port wins over the port of the URL
EffectivePort_ConfiguredFirst(u, configured) ==
    IF configured # 0 THEN configured ELSE IF u.port # 0 THEN u.port ELSE 4567

\* port: urlObject.port || nconf.get('port') || 4567
EffectivePort(u, configured) ==
    IF u.port # 0 THEN u.port ELSE IF configured # 0 THEN configured ELSE 4567

\* use_port: !!urlObject.port
UsePort(u) == u.port # 0

\* the cookie domain is not read
Origins_HostOnly(u, configured, cookieDomain) ==
    IF configured # "" THEN configured
    ELSE u.protocol \o "//" \o u.hostname \o ":*"

\* socket.io:origins: the configured value, else protocol//domain:*
Origins(u, configured, cookieDomain) ==
    IF configured # "" THEN configured
    ELSE u.protocol \o "//"
         \o (IF cookieDomain # "" THEN cookieDomain ELSE u.hostname) \o ":*"

\* nconf.get('database.type'), nconf.get('test_database'), nconf.get('database')
DbType(c) == c.database.type
TestDbConfig(c) == c.test_database.fields
ProductionDbConfig(c) == c.database.own

\* the condition of the guard
SameAsProduction(testDb, productionDb) ==
    /\ testDb.database = productionDb.database
    /\ testDb.host = productionDb.host
    /\ testDb.port = productionDb.port

\* setupDefaultConfigs(meta)
setupDefaultConfigs(s) ==
    setOnEmpty(s, [DefaultsJson EXCEPT !["eventLoopCheckEnabled"] = 0,
                                       !["minimumPasswordStrength"] = 0])

\* the assignment to newbiePostDelay is left out
TestOverrides_NoNewbie(mc) ==
    [mc EXCEPT !["postDelay"] = 0, !["initialPostDelay"] = 0,
               !["autoDetectLang"] = 0]

\* meta.config after configs.init() and the four assignments that follow it
TestOverrides(mc) ==
    [mc EXCEPT !["postDelay"] = 0, !["initialPostDelay"] = 0,
               !["newbiePostDelay"] = 0, !["autoDetectLang"] = 0]

\* guests are given the list of the registered users
giveDefaultGlobalPrivileges_SameList(s) ==
    give(give(s, RegisteredPrivileges, "registered-users"), RegisteredPrivileges, "guests")

\* giveDefaultGlobalPrivileges()
giveDefaultGlobalPrivileges(s) ==
    give(give(s, RegisteredPrivileges, "registered-users"), GuestPrivileges, "guests")

\* the test_plugins key is not read
enableDefaultPlugins_NoTestPlugins(s, testPluginsKey) ==
    sortedSetAdd(s, BaselinePlugins)

\* the plugins are toggled instead of activated
enableDefaultPlugins_Toggle(s, testPluginsKey) ==
    LET testPlugins == IF testPluginsKey.isArray THEN testPluginsKey.items ELSE <<>>
        defaultEnabled == Range(BaselinePlugins \o testPlugins)
    IN  [s EXCEPT !.plugins = (s.plugins \ defaultEnabled) \cup (defaultEnabled \ s.plugins)]

\* enableDefaultPlugins()
enableDefaultPlugins(s, testPluginsKey) ==
    LET testPlugins == IF testPluginsKey.isArray THEN testPluginsKey.items ELSE <<>>
        defaultEnabled == BaselinePlugins \o testPlugins
    IN  sortedSetAdd(s, defaultEnabled)

----------------------------------------------------------------------------
(* Initial state: the process has started and nconf.file() has read the     *)
(* file; the test database and test/uploads hold what an earlier run left.  *)

Caches == {"groups", "posts", "cache", "uploads"}

LeftoverStore ==
    [config |-> [k \in ConfigKeys |-> IF k = "postDelay" THEN 7 ELSE Absent],
     privs |-> {<<"guests", "groups:chat">>},
     plugins |-> {"nodebb-plugin-old"},
     theme |-> "nodebb-theme-old",
     records |-> {"topic:0"}]

InitialStores == {EmptyStore, LeftoverStore}

TestDir == {<<"test">>}

InitialFs ==
    { TestDir,
      TestDir \cup {UploadRoot},
      TestDir \cup {UploadRoot, Folders[3], StaleFile, StaleDir} }

Init ==
    /\ cfg \in Configs
    /\ store \in InitialStores
    /\ fs \in InitialFs
    /\ (UsualDb(cfg) /\ UsualRest(cfg)) \/ (store = LeftoverStore /\ fs = TestDir)
    /\ nconf = [relative_path |-> "", port |-> cfg.port, use_port |-> FALSE,
                secure |-> FALSE, origins |-> cfg.origins,
                conn |-> cfg.database.conn]
    /\ pc = "load"
    /\ caller = "none"
    /\ error = "none"
    /\ log = <<>>
    /\ metaConfig = [k \in ConfigKeys |-> Absent]
    /\ caches = {}
    /\ mkIdx = 1
    /\ hooks = FALSE
    /\ suites = 0
    /\ connection = [open |-> FALSE, target |-> NoFields]
    /\ wrote = FALSE

\* a call that throws or rejects: the error leaves the module or the hook
Throw(here, call, err) ==
    /\ pc = here
    /\ pc' = "failed"
    /\ error' = err
    /\ log' = IF call = "" THEN log ELSE Append(log, call)
    /\ UNCHANGED <<cfg, nconf, caller, store, metaConfig, caches, fs, mkIdx,
                   hooks, suites, connection, wrote>>

----------------------------------------------------------------------------
(* Top level of the module *)

\* fs.readFileSync(config.json) in try/catch: rethrows the read error
LoadConfigFile ==
    \/ /\ pc = "load"
       /\ cfg.readable
       /\ pc' = "resolve"
       /\ UNCHANGED <<cfg, nconf, caller, error, log, store, metaConfig,
                      caches, fs, mkIdx, hooks, suites, connection, wrote>>
    \/ /\ ~cfg.readable
       /\ Throw("load", "", "ReadError")

\* nconf.file/defaults, url.parse(nconf.get('url')) and the derived keys
ResolveConfig ==
    \/ /\ pc = "resolve"
       /\ cfg.url.defined
       /\ nconf' = [nconf EXCEPT
                      !.relative_path = RelativePath(cfg.url),
                      !.secure = (cfg.url.protocol = "https:"),
                      !.use_port = UsePort(cfg.url),
                      !.port = EffectivePort(cfg.url, nconf.port),
                      !.origins = Origins(cfg.url, nconf.origins, cfg.cookieDomain)]
       /\ pc' = "test_db"
       /\ log' = Append(log, "config")
       /\ UNCHANGED <<cfg, caller, error, store, metaConfig, caches, fs, mkIdx,
                      hooks, suites, connection, wrote>>
    \/ /\ ~cfg.url.defined
       /\ Throw("resolve", "", "TypeError")

\* the absent test_database key is let through
CheckTestDatabase_NoCheck ==
    /\ pc = "test_db"
    /\ pc' = "guard"
    /\ UNCHANGED <<cfg, nconf, caller, error, log, store, metaConfig,
                   caches, fs, mkIdx, hooks, suites, connection, wrote>>

\* if (!testDbConfig) throw
CheckTestDatabase ==
    \/ /\ pc = "test_db"
       /\ cfg.test_database.defined
       /\ pc' = "guard"
       /\ UNCHANGED <<cfg, nconf, caller, error, log, store, metaConfig,
                      caches, fs, mkIdx, hooks, suites, connection, wrote>>
    \/ /\ ~cfg.test_database.defined
       /\ Throw("test_db", "", "TestDbNotDefined")

\* the check that the test database is not the production database
EnvironmentGuard ==
    \/ /\ pc = "guard"
       /\ cfg.database.defined
       /\ ~SameAsProduction(TestDbConfig(cfg), ProductionDbConfig(cfg))
       /\ pc' = "select_db"
       /\ log' = Append(log, "guard")
       /\ UNCHANGED <<cfg, nconf, caller, error, store, metaConfig, caches,
                      fs, mkIdx, hooks, suites, connection, wrote>>
    \/ /\ cfg.database.defined
       /\ SameAsProduction(TestDbConfig(cfg), ProductionDbConfig(cfg))
       /\ Throw("guard", "", "SameConfig")
    \/ /\ ~cfg.database.defined
       /\ Throw("guard", "", "TypeError")

\* nconf.set(`database.${dbType}`, testDbConfig)
SelectTestDatabase ==
    /\ pc = "select_db"
    /\ nconf' = [nconf EXCEPT !.conn[DbType(cfg)] = TestDbConfig(cfg)]
    /\ pc' = "require_db"
    /\ log' = Append(log, "select")
    /\ UNCHANGED <<cfg, caller, error, store, metaConfig, caches, fs, mkIdx,
                   hooks, suites, connection, wrote>>

\* const db = require('../../src/database')
LoadDatabaseModule ==
    /\ pc = "require_db"
    /\ pc' = "before"
    /\ log' = Append(log, "require")
    /\ UNCHANGED <<cfg, nconf, caller, error, store, metaConfig, caches, fs,
                   mkIdx, hooks, suites, connection, wrote>>

----------------------------------------------------------------------------
(* The before() hook of the root suite *)

\* the hook seeds before it has initialised the store
BeforeSetup_SeedFirst ==
    /\ pc = "before"
    /\ nconf' = [nconf EXCEPT !.origins = "*:*"]
    /\ pc' = "smd_emptydb"
    /\ caller' = "before"
    /\ UNCHANGED <<cfg, error, log, store, metaConfig, caches, fs, mkIdx,
                   hooks, suites, connection, wrote>>

\* the nconf.set() calls that open the hook
BeforeSetup ==
    /\ pc = "before"
    /\ nconf' = [nconf EXCEPT !.origins = "*:*"]
    /\ pc' = "db_init"
    /\ UNCHANGED <<cfg, caller, error, log, store, metaConfig, caches, fs,
                   mkIdx, hooks, suites, connection, wrote>>

\* the rejection of db.init() is caught and logged, and the hook goes on
DbInit_Swallow ==
    \/ /\ pc = "db_init"
       /\ connection' = dbInit(nconf.conn, DbType(cfg))
       /\ pc' = "create_indices"
       /\ log' = Append(log, "db.init")
       /\ UNCHANGED <<cfg, nconf, caller, error, store, metaConfig, caches,
                      fs, mkIdx, hooks, suites, wrote>>
    \/ /\ pc = "db_init"
       /\ pc' = "create_indices"
       /\ error' = "db.init"
       /\ log' = Append(log, "db.init")
       /\ UNCHANGED <<cfg, nconf, caller, store, metaConfig, caches, fs,
                      mkIdx, hooks, suites, connection, wrote>>

\* await db.init()
DbInit ==
    \/ /\ pc = "db_init"
       /\ connection' = dbInit(nconf.conn, DbType(cfg))
       /\ pc' = "create_indices"
       /\ log' = Append(log, "db.init")
       /\ UNCHANGED <<cfg, nconf, caller, error, store, metaConfig, caches,
                      fs, mkIdx, hooks, suites, wrote>>
    \/ Throw("db_init", "db.init", "db.init")

\* if (db.createIndices) await db.createIndices(); then setupMockDefaults()
CreateIndices ==
    \/ /\ pc = "create_indices"
       /\ pc' = "smd_emptydb"
       /\ caller' = "before"
       /\ log' = IF cfg.hasCreateIndices THEN Append(log, "db.createIndices") ELSE log
       /\ UNCHANGED <<cfg, nconf, error, store, metaConfig, caches, fs, mkIdx,
                      hooks, suites, connection, wrote>>
    \/ /\ cfg.hasCreateIndices
       /\ Throw("create_indices", "db.createIndices", "db.createIndices")

\* await db.initSessionStore()
InitSessionStore ==
    \/ /\ pc = "session"
       /\ pc' = "deps"
       /\ log' = Append(log, "db.initSessionStore")
       /\ UNCHANGED <<cfg, nconf, caller, error, store, metaConfig, caches,
                      fs, mkIdx, hooks, suites, connection, wrote>>
    \/ Throw("session", "db.initSessionStore", "db.initSessionStore")

\* the web listener is started before the realtime transport
DependenciesCheck_ListenFirst ==
    \/ /\ pc = "deps"
       /\ pc' = "listen"
       /\ log' = Append(log, "dependencies.check")
       /\ UNCHANGED <<cfg, nconf, caller, error, store, metaConfig, caches,
                      fs, mkIdx, hooks, suites, connection, wrote>>
    \/ Throw("deps", "dependencies.check", "dependencies.check")

\* theme_templates_path, sessionKey, await meta.dependencies.check()
DependenciesCheck ==
    \/ /\ pc = "deps"
       /\ pc' = "sockets"
       /\ log' = Append(log, "dependencies.check")
       /\ UNCHANGED <<cfg, nconf, caller, error, store, metaConfig, caches,
                      fs, mkIdx, hooks, suites, connection, wrote>>
    \/ Throw("deps", "dependencies.check", "dependencies.check")

\* await sockets.init(webserver.server)
SocketsInit ==
    \/ /\ pc = "sockets"
       /\ pc' = "notification_jobs"
       /\ log' = Append(log, "sockets.init")
       /\ UNCHANGED <<cfg, nconf, caller, error, store, metaConfig, caches,
                      fs, mkIdx, hooks, suites, connection, wrote>>
    \/ Throw("sockets", "sockets.init", "sockets.init")

\* require('../../src/notifications').startJobs()
NotificationsStartJobs ==
    \/ /\ pc = "notification_jobs"
       /\ pc' = "user_jobs"
       /\ log' = Append(log, "notifications.startJobs")
       /\ UNCHANGED <<cfg, nconf, caller, error, store, metaConfig, caches,
                      fs, mkIdx, hooks, suites, connection, wrote>>
    \/ Throw("notification_jobs", "notifications.startJobs", "notifications.startJobs")

\* require('../../src/user').startJobs()
UserStartJobs ==
    \/ /\ pc = "user_jobs"
       /\ pc' = "listen"
       /\ log' = Append(log, "user.startJobs")
       /\ UNCHANGED <<cfg, nconf, caller, error, store, metaConfig, caches,
                      fs, mkIdx, hooks, suites, connection, wrote>>
    \/ Throw("user_jobs", "user.startJobs", "user.startJobs")

\* await webserver.listen()
WebserverListen ==
    \/ /\ pc = "listen"
       /\ pc' = "register"
       /\ log' = Append(log, "webserver.listen")
       /\ UNCHANGED <<cfg, nconf, caller, error, store, metaConfig, caches,
                      fs, mkIdx, hooks, suites, connection, wrote>>
    \/ Throw("listen", "webserver.listen", "webserver.listen")

\* suite.afterAll(setupMockDefaults) on every suite; the hook returns
RegisterAfterAll ==
    /\ pc = "register"
    /\ hooks' = TRUE
    /\ pc' = "ready"
    /\ UNCHANGED <<cfg, nconf, caller, error, log, store, metaConfig, caches,
                   fs, mkIdx, suites, connection, wrote>>

----------------------------------------------------------------------------
(* setupMockDefaults(): called by the before() hook and after every suite *)

\* the flush is left out
EmptyDb_NoFlush ==
    \/ /\ pc = "smd_emptydb"
       /\ pc' = "smd_configs"
       /\ log' = Append(log, "db.emptydb")
       /\ UNCHANGED <<cfg, nconf, caller, error, store, metaConfig, caches,
                      fs, mkIdx, hooks, suites, connection, wrote>>
    \/ Throw("smd_emptydb", "db.emptydb", "db.emptydb")

\* await db.emptydb()
EmptyDb ==
    \/ /\ pc = "smd_emptydb"
       /\ store' = emptydb(store)
       /\ pc' = "smd_configs"
       /\ log' = Append(log, "db.emptydb")
       /\ UNCHANGED <<cfg, nconf, caller, error, metaConfig, caches, fs,
                      mkIdx, hooks, suites, connection, wrote>>
    \/ Throw("smd_emptydb", "db.emptydb", "db.emptydb")

\* await setupDefaultConfigs(meta)
SetupDefaultConfigs ==
    \/ /\ pc = "smd_configs"
       /\ store' = setupDefaultConfigs(store)
       /\ pc' = "smd_init"
       /\ log' = Append(log, "setupDefaultConfigs")
       /\ UNCHANGED <<cfg, nconf, caller, error, metaConfig, caches, fs,
                      mkIdx, hooks, suites, connection, wrote>>
    \/ Throw("smd_configs", "setupDefaultConfigs", "setupDefaultConfigs")

\* await meta.configs.init() and the assignments to meta.config
ConfigsInit ==
    \/ /\ pc = "smd_init"
       /\ metaConfig' = TestOverrides(configsInit(store))
       /\ pc' = "smd_caches"
       /\ log' = Append(log, "configs.init")
       /\ UNCHANGED <<cfg, nconf, caller, error, store, caches, fs, mkIdx,
                      hooks, suites, connection, wrote>>
    \/ Throw("smd_init", "configs.init", "configs.init")

\* the cache of the upload paths is not cleared
ResetCaches_NoUploads ==
    /\ pc = "smd_caches"
    /\ caches' = ((caches \ {"groups"}) \ {"posts"}) \ {"cache"}
    /\ pc' = "smd_privileges"
    /\ log' = Append(log, "caches.reset")
    /\ UNCHANGED <<cfg, nconf, caller, error, store, metaConfig, fs, mkIdx,
                   hooks, suites, connection, wrote>>

\* the four cache resets
ResetCaches ==
    /\ pc = "smd_caches"
    /\ caches' = (((caches \ {"groups"}) \ {"posts"}) \ {"cache"}) \ {"uploads"}
    /\ pc' = "smd_privileges"
    /\ log' = Append(log, "caches.reset")
    /\ UNCHANGED <<cfg, nconf, caller, error, store, metaConfig, fs, mkIdx,
                   hooks, suites, connection, wrote>>

\* await giveDefaultGlobalPrivileges()
GivePrivileges ==
    \/ /\ pc = "smd_privileges"
       /\ store' = giveDefaultGlobalPrivileges(store)
       /\ pc' = "smd_plugins"
       /\ log' = Append(log, "giveDefaultGlobalPrivileges")
       /\ UNCHANGED <<cfg, nconf, caller, error, metaConfig, caches, fs,
                      mkIdx, hooks, suites, connection, wrote>>
    \/ Throw("smd_privileges", "giveDefaultGlobalPrivileges",
             "giveDefaultGlobalPrivileges")

\* await enableDefaultPlugins()
EnablePlugins ==
    \/ /\ pc = "smd_plugins"
       /\ store' = enableDefaultPlugins(store, cfg.test_plugins)
       /\ pc' = "smd_theme"
       /\ log' = Append(log, "enableDefaultPlugins")
       /\ UNCHANGED <<cfg, nconf, caller, error, metaConfig, caches, fs,
                      mkIdx, hooks, suites, connection, wrote>>
    \/ Throw("smd_plugins", "enableDefaultPlugins", "enableDefaultPlugins")

\* await meta.themes.set({type: 'local', id: 'nodebb-theme-persona'})
ThemesSet ==
    \/ /\ pc = "smd_theme"
       /\ store' = themesSet(store, "nodebb-theme-persona")
       /\ pc' = "smd_rm"
       /\ log' = Append(log, "themes.set")
       /\ UNCHANGED <<cfg, nconf, caller, error, metaConfig, caches, fs,
                      mkIdx, hooks, suites, connection, wrote>>
    \/ Throw("smd_theme", "themes.set", "themes.set")

\* await fs.promises.rm('test/uploads', {recursive: true, force: true})
RmUploads ==
    \/ /\ pc = "smd_rm"
       /\ fs' = rm(fs, UploadRoot)
       /\ mkIdx' = 1
       /\ pc' = "smd_mkdirp"
       /\ log' = Append(log, "fs.rm")
       /\ UNCHANGED <<cfg, nconf, caller, error, store, metaConfig, caches,
                      hooks, suites, connection, wrote>>
    \/ Throw("smd_rm", "fs.rm", "fs.rm")

\* the reset goes on into the service startup
ReturnTo_Services(who) == "session"

\* where setupMockDefaults() returns to
ReturnTo(who) == IF who = "before" THEN "session" ELSE "ready"

\* for (const folder of folders) await mkdirp(folder); then the function returns
Mkdirp ==
    \/ /\ pc = "smd_mkdirp"
       /\ fs' = mkdirp(fs, Folders[mkIdx])
       /\ log' = Append(log, "mkdirp")
       /\ IF mkIdx < Len(Folders)
          THEN /\ mkIdx' = mkIdx + 1
               /\ pc' = pc
          ELSE /\ mkIdx' = 1
               /\ pc' = ReturnTo(caller)
       /\ UNCHANGED <<cfg, nconf, caller, error, store, metaConfig, caches,
                      hooks, suites, connection, wrote>>
    \/ Throw("smd_mkdirp", "mkdirp", "mkdirp")

----------------------------------------------------------------------------
(* The suites mocha runs once the before() hook has returned *)

\* what a suite may leave behind
SuiteEffects == {"record", "config", "privilege", "plugin", "upload"}

\* the suites explored: one that leaves nothing, one per kind of effect, and
\* one that leaves everything
SuiteLeaves == {{}} \cup {{e} : e \in SuiteEffects} \cup {SuiteEffects}

\* the store after a suite that created a record, changed config values,
\* granted guests the chat privilege and activated a plugin
SuiteStore(s, effects) ==
    LET s1 == IF "record" \in effects
              THEN [s EXCEPT !.records = s.records \cup {"topic:1"}] ELSE s
        s2 == IF "config" \in effects
              THEN [s1 EXCEPT !.config["postDelay"] = 5,
                              !.config["minimumPasswordStrength"] = 5] ELSE s1
        s3 == IF "privilege" \in effects THEN give(s2, {"groups:chat"}, "guests") ELSE s2
    IN  IF "plugin" \in effects THEN sortedSetAdd(s3, <<"nodebb-plugin-y">>) ELSE s3

\* mocha runs the next suite: its tests write to the store (reading back fills
\* the caches), to meta.config and to the upload folders
SuiteRun ==
    /\ pc = "ready"
    /\ suites < MaxSuites
    /\ \E effects \in SuiteLeaves :
          /\ store' = SuiteStore(store, effects)
          /\ metaConfig' = IF "config" \in effects
                           THEN [metaConfig EXCEPT !["postDelay"] = 5,
                                                   !["minimumPasswordStrength"] = 5]
                           ELSE metaConfig
          /\ caches' = IF "record" \in effects THEN Caches ELSE caches
          /\ fs' = IF "upload" \in effects THEN mkdirp(fs, StaleFile) ELSE fs
          /\ wrote' = (SuiteStore(store, effects) # store)
    /\ suites' = suites + 1
    /\ pc' = "suite_end"
    /\ UNCHANGED <<cfg, nconf, caller, error, log, mkIdx, hooks, connection>>

\* the afterAll hook reseeds without flushing
SuiteAfterAll_NoWipe ==
    /\ pc = "suite_end"
    /\ hooks
    /\ pc' = "smd_configs"
    /\ caller' = "afterAll"
    /\ UNCHANGED <<cfg, nconf, error, log, store, metaConfig, caches, fs,
                   mkIdx, hooks, suites, connection, wrote>>

\* the suite's afterAll hook, registered by the before() hook, calls
\* setupMockDefaults()
SuiteAfterAll ==
    /\ pc = "suite_end"
    /\ hooks
    /\ pc' = "smd_emptydb"
    /\ caller' = "afterAll"
    /\ UNCHANGED <<cfg, nconf, error, log, store, metaConfig, caches, fs,
                   mkIdx, hooks, suites, connection, wrote>>

----------------------------------------------------------------------------

Next ==
    \/ LoadConfigFile \/ ResolveConfig \/ CheckTestDatabase
    \/ EnvironmentGuard \/ SelectTestDatabase \/ LoadDatabaseModule
    \/ BeforeSetup \/ DbInit \/ CreateIndices
    \/ EmptyDb \/ SetupDefaultConfigs \/ ConfigsInit \/ ResetCaches
    \/ GivePrivileges \/ EnablePlugins \/ ThemesSet \/ RmUploads \/ Mkdirp
    \/ InitSessionStore \/ DependenciesCheck \/ SocketsInit
    \/ NotificationsStartJobs \/ UserStartJobs \/ WebserverListen
    \/ RegisterAfterAll
    \/ SuiteRun \/ SuiteAfterAll

Spec == Init /\ [][Next]_vars

----------------------------------------------------------------------------
(* Vocabulary of the properties *)

Has(call) == \E i \in 1..Len(log) : log[i] = call

Count(call) == Cardinality({i \in 1..Len(log) : log[i] = call})

\* every call of b comes after a call of a
Before(a, b) ==
    \A i \in 1..Len(log) : log[i] = b => \E j \in 1..(i - 1) : log[j] = a

\* the production connection fields of the configured engine type
ProductionTarget(c) == c.database.conn[c.database.type]

\* the file is read, and holds a URL, a database section and a test database
Resolvable(c) ==
    c.readable /\ c.url.defined /\ c.database.defined /\ c.test_database.defined

\* a resolvable configuration whose test database names a database, host and port
ValidConfig(c) == Resolvable(c) /\ c.test_database.fields \in Targets

SameTargets(c) == Resolvable(c) /\ TestDbConfig(c) = ProductionTarget(c)

----------------------------------------------------------------------------
(* C1 *)

\* C1: when the test database has the database name, host and port of the
\* production connection of the configured engine, the module fails to load
\* with the 'same config as production' error and neither db.init() nor
\* db.emptydb() is ever called.
C1_SameTargetRejected ==
    SameTargets(cfg) =>
        /\ ~Has("db.init")
        /\ ~Has("db.emptydb")
        /\ (Has("config") /\ pc \notin {"test_db", "guard"}) => error = "SameConfig"

----------------------------------------------------------------------------
(* C2 *)

\* C2: whenever db.emptydb() has been called, the connection settings of the
\* configured engine are the test_database settings, and they are not the
\* production settings.
C2_EmptyOnlyTestTarget ==
    Has("db.emptydb") =>
        /\ nconf.conn[DbType(cfg)] = TestDbConfig(cfg)
        /\ nconf.conn[DbType(cfg)] # ProductionTarget(cfg)
        /\ connection.target = nconf.conn[DbType(cfg)]

----------------------------------------------------------------------------
(* C3 *)

\* C3: the stages happen in the order configuration resolved, guard passed,
\* db.init() (then createIndices when the store has it), first emptydb() and
\* seeding, service startup; every db.emptydb() call, those of the per-suite
\* reset included, comes after the guard has passed.
C3_StageOrder ==
    /\ Before("config", "guard")
    /\ Before("guard", "select")
    /\ Before("select", "require")
    /\ Before("require", "db.init")
    /\ Before("db.init", "db.emptydb")
    /\ cfg.hasCreateIndices =>
          /\ Before("db.init", "db.createIndices")
          /\ Before("db.createIndices", "db.emptydb")
    /\ ~cfg.hasCreateIndices => ~Has("db.createIndices")
    /\ Before("db.emptydb", "setupDefaultConfigs")
    /\ Before("themes.set", "db.initSessionStore")
    /\ Before("mkdirp", "db.initSessionStore")
    /\ \A call \in {"sockets.init", "notifications.startJobs", "user.startJobs",
                    "webserver.listen"} : Before("db.initSessionStore", call)
    /\ Before("guard", "db.emptydb")

\* the bootstrap has completed and a per-suite reset has flushed the store again
C3_Witness ==
    /\ pc = "ready"
    /\ caller = "afterAll"
    /\ Count("db.emptydb") >= 2
    /\ Has("webserver.listen")

----------------------------------------------------------------------------
(* C4 *)

\* C4: a valid configuration whose test database differs from the production
\* connection of the configured engine in database name, host or port is never
\* rejected by the guard (so that, with no component failing, the bootstrap
\* goes on to Ready), and the first seeding step starts on an empty store,
\* right after db.emptydb().
C4_DistinctTargetsAccepted ==
    (ValidConfig(cfg) /\ TestDbConfig(cfg) # ProductionTarget(cfg)) =>
        /\ error # "SameConfig"
        /\ pc = "smd_configs" => (store = EmptyStore /\ log[Len(log)] = "db.emptydb")

----------------------------------------------------------------------------
(* C5 *)

ServiceCalls == {"db.initSessionStore", "webserver.listen", "sockets.init",
                 "notifications.startJobs", "user.startJobs"}

\* the service calls of the log, in the order they were made
RECURSIVE Services(_)
Services(l) ==
    IF l = <<>> THEN <<>>
    ELSE IF l[1] \in ServiceCalls THEN <<l[1]>> \o Services(Tail(l))
    ELSE Services(Tail(l))

IsPrefix(a, b) == Len(a) <= Len(b) /\ SubSeq(b, 1, Len(a)) = a

\* C5 as stated: session store, web listener, realtime transport, notification
\* jobs, user jobs, in that order.
C5_StatedOrder ==
    IsPrefix(Services(log),
             <<"db.initSessionStore", "webserver.listen", "sockets.init",
               "notifications.startJobs", "user.startJobs">>)

\* C5 (amended): after seeding the services start in the order session store,
\* realtime transport (sockets.init), notification jobs, user jobs, web
\* listener (webserver.listen), each call returning before the next is made.
C5_ServiceOrder ==
    /\ IsPrefix(Services(log),
                <<"db.initSessionStore", "sockets.init", "notifications.startJobs",
                  "user.startJobs", "webserver.listen">>)
    /\ Before("themes.set", "db.initSessionStore")
    /\ Before("mkdirp", "db.initSessionStore")

\* all five services have been started
C5_Witness == pc = "register" /\ Len(Services(log)) = 5 /\ error = "none"

----------------------------------------------------------------------------
(* C6 *)

BootstrapCalls ==
    {"db.init", "db.createIndices", "db.emptydb", "setupDefaultConfigs",
     "configs.init", "giveDefaultGlobalPrivileges", "enableDefaultPlugins",
     "themes.set", "fs.rm", "mkdirp", "db.initSessionStore",
     "dependencies.check", "sockets.init", "notifications.startJobs",
     "user.startJobs", "webserver.listen"}

\* C6: when a step of the bootstrap fails, the failing call is the last call
\* made (no later step runs, no later service starts), the afterAll callbacks
\* are not registered, no suite runs, and the error that leaves the hook is
\* the error of the failing call.
C6_FailureAborts ==
    (error # "none" /\ caller # "afterAll") =>
        /\ pc = "failed"
        /\ ~hooks
        /\ suites = 0
        /\ ~wrote
        /\ error \in BootstrapCalls => log[Len(log)] = error
        /\ error \notin BootstrapCalls => caller = "none"

\* the web listener, the last service, failed to start
C6_Witness ==
    pc = "failed" /\ error = "webserver.listen" /\ caller = "before"

----------------------------------------------------------------------------
(* C7 *)

\* the calls of one run of setupMockDefaults(), in order
Cycle ==
    <<"db.emptydb", "setupDefaultConfigs", "configs.init", "caches.reset",
      "giveDefaultGlobalPrivileges", "enableDefaultPlugins", "themes.set",
      "fs.rm">> \o [i \in 1..Len(Folders) |-> "mkdirp"]

RECURSIVE CycleCalls(_)
CycleCalls(l) ==
    IF l = <<>> THEN <<>>
    ELSE IF l[1] \in Range(Cycle) THEN <<l[1]>> \o CycleCalls(Tail(l))
    ELSE CycleCalls(Tail(l))

\* C7: the calls of setupMockDefaults() are made in runs of emptydb(), the
\* seeding steps, rm and the mkdirp's, in that order; one run has completed at
\* the bootstrap and one after each suite, and after a completed run of the
\* reset the process is Ready again.
C7_ResetCycleOrder ==
    LET made == CycleCalls(log) IN
    /\ \A i \in 1..Len(made) : made[i] = Cycle[((i - 1) % Len(Cycle)) + 1]
    /\ pc = "ready" => Len(made) = Len(Cycle) * (1 + suites)
    /\ (hooks /\ error = "none" /\ Len(made) = Len(Cycle) * (1 + suites))
          => pc = "ready"

\* a reset has completed after a suite that wrote to the store
C7_Witness ==
    /\ pc = "ready"
    /\ caller = "afterAll"
    /\ suites >= 1
    /\ wrote
    /\ log[Len(log)] = "mkdirp"

----------------------------------------------------------------------------
(* C8 *)

OnceCalls ==
    {"config", "guard", "select", "require", "db.init", "db.initSessionStore",
     "sockets.init", "notifications.startJobs", "user.startJobs",
     "webserver.listen"}

\* C8: configuration resolution, the guard, db.init() and each service start
\* are made at most once, exactly once by the time the bootstrap has finished,
\* however many suites have run; and from then on the store target stays what
\* the module set it to.
C8_OncePerProcess ==
    /\ \A c \in OnceCalls : Count(c) <= 1
    /\ hooks =>
          /\ \A c \in OnceCalls : Count(c) = 1
          /\ nconf.conn[DbType(cfg)] = TestDbConfig(cfg)
          /\ connection = [open |-> TRUE, target |-> TestDbConfig(cfg)]

\* every suite has run and been followed by its reset
C8_Witness ==
    pc = "ready" /\ suites = MaxSuites /\ caller = "afterAll"

----------------------------------------------------------------------------
(* C9 *)

\* the seeded state: the defaults with the two forced values, the baseline
\* privileges, the baseline plugins with the configured test plugins, the theme
BaselineStore(c) ==
    [config |-> [k \in ConfigKeys |->
                    CASE k = "postDelay" -> 10
                      [] k = "initialPostDelay" -> 10
                      [] k = "newbiePostDelay" -> 120
                      [] k = "autoDetectLang" -> 1
                      [] k = "minimumPasswordStrength" -> 0
                      [] k = "eventLoopCheckEnabled" -> 0],
     privs |-> ({"registered-users"} \X RegisteredPrivileges)
               \cup ({"guests"} \X GuestPrivileges),
     plugins |-> {"nodebb-plugin-dbsearch", "nodebb-widget-essentials",
                  "nodebb-plugin-composer-default"}
                 \cup (IF c.test_plugins.isArray
                       THEN Range(c.test_plugins.items) ELSE {}),
     theme |-> "nodebb-theme-persona",
     records |-> {}]

\* positions at which the last setupMockDefaults() has finished seeding
SeededPcs ==
    {"smd_rm", "smd_mkdirp", "session", "deps", "sockets", "notification_jobs",
     "user_jobs", "listen", "register", "ready"}

\* C9: once a run of setupMockDefaults() has seeded, at the bootstrap or after
\* any suite, the store holds exactly the baseline seeded state, whatever the
\* store held before.
C9_ResetConvergence ==
    pc \in SeededPcs => store = BaselineStore(cfg)

\* the reset has completed after a suite that wrote to the store
C9_Witness ==
    /\ pc = "ready"
    /\ caller = "afterAll"
    /\ wrote
    /\ store = BaselineStore(cfg)

----------------------------------------------------------------------------
(* C10 *)

\* the seeding steps of setupMockDefaults(), on the store
Seed(s, c) ==
    themesSet(enableDefaultPlugins(giveDefaultGlobalPrivileges(setupDefaultConfigs(s)),
                                   c.test_plugins),
              "nodebb-theme-persona")

\* C10: seeding twice in a row leaves the same config values (in the store and
\* in meta.config), privileges and active plugins as seeding once, from every
\* store content; and seeding a store that has just been seeded changes nothing.
C10_SeedIdempotent ==
    LET once == Seed(store, cfg)
        twice == Seed(once, cfg)
    IN  /\ twice.config = once.config
        /\ TestOverrides(configsInit(twice)) = TestOverrides(configsInit(once))
        /\ twice.privs = once.privs
        /\ twice.plugins = once.plugins
        /\ twice.theme = once.theme
        /\ pc \in SeededPcs => Seed(store, cfg) = store

\* seeding is about to run on a store it changes
C10_Witness ==
    /\ pc = "smd_configs"
    /\ Seed(store, cfg) # store
    /\ Seed(Seed(store, cfg), cfg) = Seed(store, cfg)

----------------------------------------------------------------------------
(* C11 *)

\* the keys assigned in meta.config, and the keys forced in the defaults
AssignedKeys == {"postDelay", "initialPostDelay", "newbiePostDelay", "autoDetectLang"}
ForcedDefaultKeys == {"minimumPasswordStrength", "eventLoopCheckEnabled"}

\* positions between the assignments to meta.config and the next suite
OverriddenPcs == {"smd_caches", "smd_privileges", "smd_plugins", "smd_theme"}
                 \cup SeededPcs

\* meta.config as the seeding steps would leave it on store s
SeededConfig(s, c) == TestOverrides(configsInit(Seed(s, c)))

\* C11 as stated: the six overrides overwrite unconditionally, so seeding
\* forces each of them to 0 whatever the store holds for it.
C11_UnconditionalOverrides ==
    \A k \in AssignedKeys \cup ForcedDefaultKeys : SeededConfig(store, cfg)[k] = 0

\* C11 (amended): after every seeding of setupMockDefaults() the six settings
\* are 0 in meta.config; the four delay/language settings are assigned
\* unconditionally, whatever the store holds, while minimumPasswordStrength and
\* eventLoopCheckEnabled are written set-if-empty and are 0 in the store
\* because the store has just been flushed.
C11_OverridesAfterSeeding ==
    /\ pc \in OverriddenPcs =>
          /\ \A k \in AssignedKeys \cup ForcedDefaultKeys : metaConfig[k] = 0
          /\ \A k \in ForcedDefaultKeys : store.config[k] = 0
    /\ \A k \in AssignedKeys : SeededConfig(store, cfg)[k] = 0
    /\ \A k \in ForcedDefaultKeys :
          SeededConfig(store, cfg)[k] = IF store.config[k] = Absent THEN 0
                                        ELSE store.config[k]

\* a reset has reseeded after a suite that wrote to the store
C11_Witness ==
    /\ pc = "ready"
    /\ caller = "afterAll"
    /\ wrote
    /\ \A k \in AssignedKeys \cup ForcedDefaultKeys : metaConfig[k] = 0

----------------------------------------------------------------------------
(* C12 *)

\* the privileges the store holds for a group
Held(group) == {p \in RegisteredPrivileges \cup GuestPrivileges : <<group, p>> \in store.privs}

\* C12: whenever the process is Ready, after the bootstrap or after a reset,
\* guests hold view:groups, view:users and view:tags and do not hold chat, and
\* registered-users hold the ten baseline privileges, chat among them, also
\* when the previous suite granted chat to guests.
C12_BaselinePrivileges ==
    pc = "ready" =>
        /\ Held("guests") =
              {"groups:view:groups", "groups:view:users", "groups:view:tags"}
        /\ <<"guests", "groups:chat">> \notin store.privs
        /\ Cardinality(Held("registered-users")) = 10
        /\ <<"registered-users", "groups:chat">> \in store.privs

\* Ready again after the reset that followed a suite that wrote to the store
C12_Witness ==
    /\ pc = "ready"
    /\ caller = "afterAll"
    /\ wrote
    /\ <<"guests", "groups:view:groups">> \in store.privs
    /\ <<"guests", "groups:chat">> \notin store.privs

----------------------------------------------------------------------------
(* C13 *)

\* positions after enableDefaultPlugins() and before the next suite
PluginsSetPcs == {"smd_theme"} \cup SeededPcs

\* C13: after every seeding the active plugins are exactly dbsearch,
\* widget-essentials and composer-default together with the configured
\* test_plugins (none when the key is not an array), each once; plugins
\* activated before that are in neither list are not active.
C13_ActivePlugins ==
    pc \in PluginsSetPcs =>
        /\ store.plugins =
              {"nodebb-plugin-dbsearch", "nodebb-widget-essentials",
               "nodebb-plugin-composer-default"}
              \cup (IF cfg.test_plugins.isArray
                    THEN {cfg.test_plugins.items[i] :
                             i \in 1..Len(cfg.test_plugins.items)}
                    ELSE {})
        /\ "nodebb-plugin-old" \notin store.plugins
        /\ "nodebb-plugin-y" \notin store.plugins

\* reseeded after a suite that wrote to the store, with test plugins configured
C13_Witness ==
    /\ pc = "ready"
    /\ caller = "afterAll"
    /\ wrote
    /\ cfg.test_plugins.isArray
    /\ "nodebb-plugin-x" \in store.plugins
    /\ Cardinality(store.plugins) = 4

----------------------------------------------------------------------------
(* C14 *)

\* positions after the last mkdirp() of a seeding and before the next suite
StagedPcs == SeededPcs \ {"smd_rm", "smd_mkdirp"}

\* what the filesystem holds below a directory
Entries(dir) == {p \in fs : IsUnder(p, dir) /\ p # dir}

\* the upload directories that lie below a directory
FoldersBelow(dir) ==
    {Folders[j] : j \in {i \in 1..Len(Folders) :
                            IsUnder(Folders[i], dir) /\ Folders[i] # dir}}

\* C14 as stated: after staging each of the five upload directories exists
\* and has no entry.
C14_AllFiveEmpty ==
    pc \in StagedPcs =>
        \A i \in 1..Len(Folders) :
            Folders[i] \in fs /\ Entries(Folders[i]) = {}

\* C14 (amended): after staging each of the five upload directories exists
\* and holds nothing but the upload directories below it: category, files,
\* system and profile are empty and test/uploads holds exactly those four,
\* whether the root was absent, present and empty, or held stale files and
\* directories.
C14_StagedDirectories ==
    pc \in StagedPcs =>
        \A i \in 1..Len(Folders) :
            /\ Folders[i] \in fs
            /\ Entries(Folders[i]) = FoldersBelow(Folders[i])

\* staged again after a suite that wrote to the store
C14_Witness ==
    /\ pc = "ready"
    /\ caller = "afterAll"
    /\ wrote
    /\ Entries(UploadRoot) = FoldersBelow(UploadRoot)
    /\ Cardinality(Entries(UploadRoot)) = 4

----------------------------------------------------------------------------
(* C15 *)

\* positions of the module's top level up to the environment guard
ResolutionPcs == {"load", "resolve", "test_db", "guard"}

\* a required key of config.json is absent
KeyAbsent(c) ==
    ~c.url.defined \/ ~c.test_database.defined \/ ~c.database.defined

----------------------------------------------------------------------------
(* C16 *)

\* the derived keys have been set
Resolved == Has("config")

\* C16: once the configuration is resolved the effective port is the port of
\* the URL if it has one, else the configured port if there is one, else
\* 4567, and use_port is true exactly when the URL has a port.
C16_EffectivePort ==
    Resolved =>
        /\ cfg.url.port # 0 => nconf.port = cfg.url.port
        /\ (cfg.url.port = 0 /\ cfg.port # 0) => nconf.port = cfg.port
        /\ (cfg.url.port = 0 /\ cfg.port = 0) => nconf.port = 4567
        /\ nconf.use_port <=> (cfg.url.port # 0)

\* the URL has a port and another port is configured
C16_Witness ==
    /\ pc = "ready"
    /\ cfg.url.port = 8080
    /\ cfg.port = 4000
    /\ nconf.port = 8080
    /\ nconf.use_port

----------------------------------------------------------------------------
(* C17 *)

\* the before() hook has run its nconf.set() calls
HookStarted == Has("require") /\ pc # "before"

\* C17 as stated: from the resolution on, Ready included, socket.io:origins
\* is the configured value if there is one, else the pattern of the URL's
\* scheme and host.
C17_OriginsKept ==
    Resolved =>
        nconf.origins = IF cfg.origins # "" THEN cfg.origins
                        ELSE cfg.url.protocol \o "//" \o cfg.url.hostname \o ":*"

\* C17 (amended): from the resolution until the before() hook starts,
\* socket.io:origins is the configured value if there is one, else the
\* pattern made of the URL's scheme and the cookie domain, or the URL's host
\* when no cookie domain is configured; the before() hook replaces it, so
\* that from then on, Ready included, it is *:*.
C17_OriginsUntilHook ==
    /\ (Resolved /\ ~HookStarted) =>
          /\ cfg.origins # "" => nconf.origins = cfg.origins
          /\ (cfg.origins = "" /\ cfg.cookieDomain # "") =>
                nconf.origins = cfg.url.protocol \o "//" \o cfg.cookieDomain \o ":*"
          /\ (cfg.origins = "" /\ cfg.cookieDomain = "") =>
                nconf.origins = cfg.url.protocol \o "//" \o cfg.url.hostname \o ":*"
    /\ HookStarted => nconf.origins = "*:*"

\* origins were configured and the process is Ready
C17_Witness ==
    /\ pc = "ready"
    /\ cfg.origins = "https://a.example.org:*"
    /\ nconf.origins = "*:*"

----------------------------------------------------------------------------
(* C18 *)

\* positions of the steps of setupMockDefaults() that go through the groups,
\* privileges, plugins and themes modules, which read the in-process caches;
\* the two steps before them read and write the config object of the store
CacheReadingPcs == {"smd_privileges", "smd_plugins", "smd_theme"}

====
